---- MODULE Spec2Model ----
(***************************************************************************)
(* State-machine model of the display-context coordinator: the            *)
(* DisplayContext cache (displaycontext.js / display-context.ts), the     *)
(* DisplayContextFactory arbitration and the broker / store / display-    *)
(* worker environment they talk to.                                       *)
(*                                                                         *)
(* A process p is one client of the library: it holds one DisplayContext  *)
(* object (dcName, displayWindows, viewObjects, window_settings), runs    *)
(* one library call at a time (pc, cont, calls) and owns one ordered      *)
(* connection to the store (storeQ).  Workers are external collaborators: *)
(* their replies are inputs, drawn when the caller consumes them.         *)
(***************************************************************************)
EXTENDS Integers, Sequences, FiniteSets, TLC

Nil == "nil"

Procs == {"p1", "p2"}
Displays == {"d1", "d2"}
Contexts == {"A", "B"}
ViewIds == {"v1", "v2"}
Gens == {"js", "ts"}

\* Calls one process may start.
MaxOps == 2

VARIABLES
  gen,              \* which generation of the sources runs: "js" or "ts"
  queues,           \* broker queue listing: queue name -> state
  store,            \* value of 'display:activeDisplayContext' (Nil: absent)
  storeQ,           \* per process: store commands sent and not yet executed
  published,        \* topic events published so far
  shownContext,     \* context of the latest 'set-display-context' the workers got
  signals,          \* per process and display: removal signals not yet delivered
  dcName,           \* DisplayContext.name of the process's object (Nil: none)
  displayWindows,   \* DisplayContext.displayWindows
  viewObjects,      \* DisplayContext.viewObjects
  window_settings,  \* DisplayContext.window_settings (empty: never assigned)
  quitHandler,      \* DisplayContext.displayWorkerQuitHandler is set
  lastQuit,         \* argument of the latest quit-handler invocation
  closedHandler,    \* the subscription made by onClosed(handler), per process
  pc,               \* position of the call in flight
  cont,             \* what the nested calls return to (innermost first)
  calls,            \* RPCs of the pending Promise.all
  opName,           \* the top-level call
  opArg,            \* its arguments
  opPrev,           \* setActive: the name getset returned
  opCmds,           \* commands sent (and settings read) by the top-level call
  execLog,          \* the latest _executeInAvailableDisplays of the top-level call
  outcome,          \* how the latest top-level call settled
  nOps              \* calls started so far

envVars == <<gen, closedHandler, queues, store, storeQ, signals>>
dcVars == <<dcName, displayWindows, viewObjects, window_settings, quitHandler, lastQuit>>
callVars == <<pc, cont, calls, opName, opArg, opPrev, opCmds, execLog, outcome, nOps,
              shownContext>>
opVars == <<opName, opArg, opPrev, nOps>>
dcRest == <<dcName, displayWindows, viewObjects, quitHandler, lastQuit>>
vars == <<gen, queues, store, storeQ, published, shownContext, signals,
          dcName, displayWindows, viewObjects, window_settings, quitHandler, lastQuit,
          closedHandler,
          pc, cont, calls, opName, opArg, opPrev, opCmds, execLog, outcome, nOps>>

----------------------------------------------------------------------------
(* Maps (ES2015 Map / plain objects) as functions. *)

EmptyMap == [k \in {} |-> Nil]

Put(m, k, v) == [x \in (DOMAIN m) \cup {k} |-> IF x = k THEN v ELSE m[x]]

Without(m, ks) == [x \in (DOMAIN m) \ ks |-> m[x]]

\* Object.keys / Map iteration order, taken as one fixed order of the names.
NameOrder == <<"d1", "d2", "v1", "v2", "main", Nil>>

KeysSeq(m) == SelectSeq(NameOrder, LAMBDA k : k \in DOMAIN m)

----------------------------------------------------------------------------
(* The broker's queues. *)

QueueStates == {"starting", "live", "running", "draining", "gone"}

DisplayQueue(d) == <<"rpc-display-", d>>

OtherQueue == <<"rpc-", "speaker">>

QueueNames == {DisplayQueue(d) : d \in Displays} \cup {OtherQueue}

\* The order of the listing getQueues() resolves with.
QueueOrder == <<DisplayQueue("d1"), OtherQueue, DisplayQueue("d2")>>

\* queue.name.indexOf('rpc-display-') > -1
IsDisplayQueue(q) == q[1] = "rpc-display-"

\* queue.name.replace('rpc-display-', '')
ClosedDisplayOf(q) == q[2]

IsLiveStateOrStarting(s) == s \in {"running", "live", "starting"}

\* queue.state === 'running' || queue.state === 'live'
IsLiveState(s) == s = "running" \/ s = "live"

\* availableDisplayNames of _executeInAvailableDisplays
AvailableDisplayNames(qs) ==
  SelectSeq(QueueOrder, LAMBDA q : IsLiveState(qs[q]) /\ IsDisplayQueue(q))

NoDisplaysCheckDropped(ps) == FALSE

\* the `_ps.length > 0` test of _executeInAvailableDisplays, negated
NoDisplayWorkerFound(ps) == Len(ps) = 0

\* a worker that can still answer a request already in its queue
Answers(q) == q \in QueueNames /\ queues[q] \in {"live", "running", "draining"}

\* a request nobody will answer: the queue is gone or never existed
Unanswerable(q) == IF q \in QueueNames THEN queues[q] = "gone" ELSE TRUE

----------------------------------------------------------------------------
(* Records of the cache. *)

\* new DisplayWindow(io, opts): the fields the cache reads
DisplayWindowOf(opts) ==
  [windowName |-> opts.windowName, displayName |-> opts.displayName]

\* new ViewObject(io, opts)
ViewObjectOf(displayName, windowName) ==
  [displayName |-> displayName, windowName |-> windowName]

\* One declared window: the caller names its owning display, or not (Nil).
WindowSettingsChoices ==
  {EmptyMap}
    \cup {[k \in {w} |-> [windowName |-> Nil, displayName |-> dn]] :
            w \in Displays, dn \in {"d1"}}

\* The constructor's pass over window_settings: windowName = k and, when a
\* displayName is given, displayName = k.
ConstructedSettings(ws) ==
  IF DOMAIN ws = {}
    THEN EmptyMap
    ELSE [k \in DOMAIN ws |->
            [windowName |-> k,
             displayName |-> IF ws[k].displayName # Nil THEN k ELSE ws[k].displayName]]

\* _.isEmpty(this.window_settings); a window_settings never assigned is the
\* empty map here, which every reader of it treats alike
SettingsEmpty(ws) == DOMAIN ws = {}

----------------------------------------------------------------------------
(* What a worker may answer.  A worker names its windows after itself and *)
(* owns one pane id; the window it reports for the pane is its own or one *)
(* it does not report.                                                    *)

PaneOf(d) == IF d = "d1" THEN "v1" ELSE "v2"

\* replies to 'get-dw-context-windows-vbo'
DwStateReplies(d) ==
  LET win == [k \in {d} |-> [windowName |-> d, displayName |-> d]]
      pane == [k \in {PaneOf(d)} |-> d]
      stray == [k \in {PaneOf(d)} |-> CHOOSE w \in Displays : w # d]
  IN {[windows |-> EmptyMap, viewObjects |-> EmptyMap],
      [windows |-> win, viewObjects |-> EmptyMap],
      [windows |-> win, viewObjects |-> pane],
      [windows |-> EmptyMap, viewObjects |-> pane],
      [windows |-> EmptyMap, viewObjects |-> stray]}

\* replies to 'get-window-bounds': window name -> bounds
BoundsReplies(d) ==
  {EmptyMap, [k \in {d} |-> [windowName |-> Nil, displayName |-> d]]}

\* replies to 'close-display-context'
CloseReplies(d) ==
  {[command |-> c, displayName |-> d, status |-> "success"] :
     c \in {"close-display-context", "hide-display-context"}}

\* replies to 'create-window' for options o, from the worker at queue q
CreateWindowReplies(q, o) ==
  {[status |-> "success", windowName |-> o.windowName, displayName |-> ClosedDisplayOf(q)],
   [status |-> "error", windowName |-> Nil, displayName |-> Nil]}

\* replies to 'create-viewobj' / 'create-view-object' for window w
CreateViewObjectReplies(q, w) ==
  {[status |-> "success", view_id |-> PaneOf(ClosedDisplayOf(q)),
    windowName |-> w, displayName |-> ClosedDisplayOf(q)],
   [status |-> "error", view_id |-> Nil, windowName |-> Nil, displayName |-> Nil]}

\* the reply lists a Promise.all over the calls cs can resolve with
ReplyLists(cs, R(_)) ==
  {f \in [1..Len(cs) -> UNION {R(cs[i]) : i \in 1..Len(cs)}] :
     \A i \in 1..Len(cs) : f[i] \in R(cs[i])}

----------------------------------------------------------------------------
(* restoreFromDisplayWorkerStates: the pass over the replies. *)

\* one iteration of states.forEach
RestoreState(acc, state) ==
  LET dw == [k \in (DOMAIN acc.dw) \cup (DOMAIN state.windows) |->
               IF k \in DOMAIN state.windows
                 THEN DisplayWindowOf(state.windows[k])
                 ELSE acc.dw[k]]
      resolved == {k \in DOMAIN state.viewObjects : state.viewObjects[k] \in DOMAIN dw}
      vo == [k \in (DOMAIN acc.vo) \cup resolved |->
               IF k \in resolved
                 THEN ViewObjectOf(dw[state.viewObjects[k]].displayName,
                                   dw[state.viewObjects[k]].windowName)
                 ELSE acc.vo[k]]
  IN [dw |-> dw, vo |-> vo, wc |-> acc.wc + Cardinality(DOMAIN state.windows)]

RECURSIVE RestoreFrom(_, _, _)
RestoreFrom(states, i, acc) ==
  IF i > Len(states) THEN acc
  ELSE RestoreFrom(states, i + 1, RestoreState(acc, states[i]))

\* the maps and windowCount after clear() and the pass
Restored(states) ==
  RestoreFrom(states, 1, [dw |-> EmptyMap, vo |-> EmptyMap, wc |-> 0])

\* windowCount
WindowCount(states) == Restored(states).wc

\* getWindowBounds: boundMap merged from the replies
RECURSIVE BoundMapFrom(_, _, _)
BoundMapFrom(bounds, x, acc) ==
  IF x > Len(bounds) THEN acc
  ELSE BoundMapFrom(bounds, x + 1,
         [k \in (DOMAIN acc) \cup (DOMAIN bounds[x]) |->
            IF k \in DOMAIN bounds[x] THEN bounds[x][k] ELSE acc[k]])

BoundMap(bounds) == BoundMapFrom(bounds, 1, EmptyMap)

----------------------------------------------------------------------------
(* _clean *)

ClosedWindowsAll(dw, closedDisplay) == DOMAIN dw

\* closedWindows
ClosedWindows(dw, closedDisplay) ==
  {k \in DOMAIN dw : dw[k].displayName = closedDisplay}

\* vboToRemove
VboToRemove(vo, closedDisplay) ==
  {k \in DOMAIN vo : vo[k].displayName = closedDisplay}

NoQuit == [closedDisplay |-> Nil, closedWindows |-> {}, closedViewObjects |-> {}]

----------------------------------------------------------------------------
(* close *)

IsHiddenFirstOnly(m) == Len(m) > 0 /\ m[1].command = "hide-display-context"

\* isHidden after the loop over the replies
IsHidden(m) == \E i \in 1..Len(m) : m[i].command = "hide-display-context"

----------------------------------------------------------------------------
(* The store. *)

StoredAfterGetOnly(old, new) == old

\* the value of the key after getset(key, new)
StoredAfterGetset(old, new) == new

AlreadyActiveNever(name, display_ctx_name) == FALSE

\* the no-op test of setActive, `name !== display_ctx_name`, negated
AlreadyActive(name, display_ctx_name) == name = display_ctx_name

----------------------------------------------------------------------------

NoOutcome == [st |-> "none", val |-> Nil]

NoArg == [ctx |-> Nil, reset |-> FALSE, win |-> Nil]

NoExec == [cmd |-> Nil, found |-> 0, sent |-> 0, rejected |-> FALSE]

\* no onClosed handler: `name` is this.name of the object it is registered
\* on, `since` and `next` index the events published, `invoked` counts the
\* calls of the handler
NoHandler == [set |-> FALSE, name |-> Nil, since |-> 0, next |-> 0, invoked |-> 0]

Init ==
  /\ gen \in Gens
  /\ queues = [q \in QueueNames |->
                 CASE q = DisplayQueue("d1") -> "live"
                   [] q = DisplayQueue("d2") -> "starting"
                   [] OTHER -> "running"]
  /\ store = Nil
  /\ storeQ = [p \in Procs |-> <<>>]
  /\ published = <<>>
  /\ shownContext = Nil
  /\ signals = [p \in Procs |-> [d \in Displays |-> 0]]
  /\ dcName = [p \in Procs |-> Nil]
  /\ displayWindows = [p \in Procs |-> EmptyMap]
  /\ viewObjects = [p \in Procs |-> EmptyMap]
  /\ window_settings = [p \in Procs |-> EmptyMap]
  /\ quitHandler = [p \in Procs |-> FALSE]
  /\ lastQuit = [p \in Procs |-> NoQuit]
  /\ closedHandler = [p \in Procs |-> NoHandler]
  /\ pc = [p \in Procs |-> "idle"]
  /\ cont = [p \in Procs |-> <<>>]
  /\ calls = [p \in Procs |-> <<>>]
  /\ opName = [p \in Procs |-> Nil]
  /\ opArg = [p \in Procs |-> NoArg]
  /\ opPrev = [p \in Procs |-> Nil]
  /\ opCmds = [p \in Procs |-> {}]
  /\ execLog = [p \in Procs |-> NoExec]
  /\ outcome = [p \in Procs |-> NoOutcome]
  /\ nOps = [p \in Procs |-> 0]

----------------------------------------------------------------------------
(* The call in flight of one process, as a value: where it stands (pc,    *)
(* cont, calls), how it settled (out), and what it has published (pub),   *)
(* assigned to window_settings (ws), sent (cmds) and found (exec); name   *)
(* is this.name, shown the context its workers were last told to show.    *)

Frame(p) ==
  [pc |-> pc[p], cont |-> cont[p], calls |-> calls[p], out |-> outcome[p],
   pub |-> published, ws |-> window_settings[p], cmds |-> opCmds[p],
   exec |-> execLog[p], name |-> dcName[p], shown |-> shownContext]

Apply(p, k) ==
  /\ pc' = [pc EXCEPT ![p] = k.pc]
  /\ cont' = [cont EXCEPT ![p] = k.cont]
  /\ calls' = [calls EXCEPT ![p] = k.calls]
  /\ outcome' = [outcome EXCEPT ![p] = k.out]
  /\ published' = k.pub
  /\ window_settings' = [window_settings EXCEPT ![p] = k.ws]
  /\ opCmds' = [opCmds EXCEPT ![p] = k.cmds]
  /\ execLog' = [execLog EXCEPT ![p] = k.exec]
  /\ shownContext' = k.shown

\* "attached": the caller's promise follows the work in flight.  "hang": the
\* work runs on but the caller's promise is never settled.  "thrown": the
\* caller's promise was rejected before the work in flight started.
Mode(k) ==
  IF k.cont # <<>> /\ k.cont[Len(k.cont)] \in {"hang", "thrown"}
    THEN k.cont[Len(k.cont)]
    ELSE "attached"

NotDefined == [st |-> "rejected", val |-> "WindowNameNotDefined"]

\* the top-level promise settles (or, detached, the work in flight ends)
Settled(k, st, val) ==
  [k EXCEPT !.pc = "idle", !.cont = <<>>, !.calls = <<>>,
            !.out = CASE Mode(k) = "hang" -> [st |-> "pending", val |-> Nil]
                      [] Mode(k) = "thrown" -> NotDefined
                      [] OTHER -> [st |-> st, val |-> val]]

Rejected(k, err) == Settled(k, "rejected", err)

Event(topic, ctx, last, details) ==
  [topic |-> topic, displayContext |-> ctx, lastDisplayContext |-> last,
   details |-> details]

CreateReturnsUnannounced(p, k) == Settled(k, "resolved", "displayContext")

\* DisplayContextFactory.create after the await: publish, return _dc
CreateReturns(p, k) ==
  [Settled(k, "resolved", "displayContext") EXCEPT
     !.pub = Append(k.pub, Event("display.displayContext.created", opArg[p].ctx, Nil, <<>>))]

\* the value of `m`: what restoreFromDisplayWorkerStates resolved with
RestoreResult == "restoreResult"

\* DisplayContextFactory.setActive after the await: publish, return m
SetActiveReturns(p, k) ==
  [Settled(k, "resolved", RestoreResult) EXCEPT
     !.pub = Append(k.pub, Event("display.displayContext.changed",
                                 opArg[p].ctx, opPrev[p], <<>>))]

\* openDisplayWorker: DisplayContextFactory.create has published and returned;
\* the callback that looks the window up is to run
OpenDisplayWorkerCreated(p, k) ==
  [k EXCEPT !.pc = "openDisplayWorker.created", !.cont = <<>>, !.calls = <<>>,
            !.pub = Append(k.pub, Event("display.displayContext.created",
                                        opArg[p].ctx, Nil, <<>>))]

\* the outermost promise of the work in flight resolves
Resolved(p, k) ==
  CASE Mode(k) # "attached" -> Settled(k, "resolved", "result")
    [] opName[p] = "create" -> CreateReturns(p, k)
    [] opName[p] = "openDisplayWorker" -> OpenDisplayWorkerCreated(p, k)
    [] opName[p] = "setActive" -> SetActiveReturns(p, k)
    [] OTHER -> Settled(k, "resolved", "result")

\* one request per entry of ts: <<queue, argument>>
Sent(k, ts, cmd, waitPc) ==
  [k EXCEPT !.pc = waitPc,
            !.calls = [i \in 1..Len(ts) |-> [to |-> ts[i][1], arg |-> ts[i][2]]],
            !.cmds = k.cmds \cup {cmd}]

\* _executeInAvailableDisplays(options): getQueues() resolves with the
\* listing; one request per available display, or the rejection
ExecuteInAvailableDisplays(k, cmd, waitPc) ==
  LET ps == AvailableDisplayNames(queues)
  IN IF NoDisplayWorkerFound(ps)
       THEN Rejected([k EXCEPT !.exec = [cmd |-> cmd, found |-> Len(ps), sent |-> 0,
                                         rejected |-> TRUE]],
                     "NoDisplayWorkerFound")
       ELSE Sent([k EXCEPT !.exec = [cmd |-> cmd, found |-> Len(ps), sent |-> Len(ps),
                                     rejected |-> FALSE],
                           !.shown = IF cmd = "set-display-context" THEN k.name ELSE @],
                 [i \in 1..Len(ps) |-> <<ps[i], Nil>>], cmd, waitPc)

\* show(), called with `then` to run after it
CallShow(k, then) ==
  ExecuteInAvailableDisplays([k EXCEPT !.cont = then \o k.cont],
                             "set-display-context", "show.wait")

\* initialize(options)
Initialize(k, options) ==
  IF SettingsEmpty(options)
    THEN Rejected(k, "CannotInitialize")
    ELSE CallShow(k, <<"createWindows">>)

\* createViewObject (js), the callback on the bounds: defaults written into
\* the bounds objects, then initialize() without settling the promise
CheckedBounds(bounds) ==
  [b \in DOMAIN bounds |->
     [windowName |-> b,
      displayName |-> IF bounds[b].displayName = Nil THEN b ELSE bounds[b].displayName]]

WindowNameCheckSkipped(k, bounds, windowName) ==
  Initialize([k EXCEPT !.ws = CheckedBounds(bounds), !.cont = <<"hang">>],
             CheckedBounds(bounds))

\* `if (windowNameCheck)` in the promise createViewObject returns
WindowNameCheck(k, bounds, windowName) ==
  IF windowName \in DOMAIN bounds
    THEN Initialize([k EXCEPT !.ws = CheckedBounds(bounds), !.cont = <<"hang">>],
                    CheckedBounds(bounds))
    ELSE Rejected([k EXCEPT !.ws = CheckedBounds(bounds)], "WindowNameNotDefined")

\* what the caller of getWindowBounds() does with the bounds
BoundsKnown(k, bounds, then, windowName) ==
  CASE then = "initialize" -> Initialize(k, bounds)
    [] then = "windowNameCheck" -> WindowNameCheck(k, bounds, windowName)
    [] OTHER -> Settled(k, "resolved", "result")

\* getWindowBounds(), called with `then` to run on its result
GetWindowBounds(k, then, windowName) ==
  LET k1 == [k EXCEPT !.cmds = k.cmds \cup {"getWindowBounds"}]
  IN IF ~SettingsEmpty(k.ws)
       THEN BoundsKnown(k1, k.ws, then, windowName)
       ELSE ExecuteInAvailableDisplays([k1 EXCEPT !.cont = <<then>> \o k.cont],
                                       "get-window-bounds", "getWindowBounds.wait")

\* createViewObject (ts), window missing: `bounds` is the promise itself, no
\* key of it is the window name, so the call throws; getWindowBounds() has
\* been called and, without settings, its broadcast runs on
ThrowsNotDefined(k) ==
  LET k1 == [k EXCEPT !.cmds = k.cmds \cup {"getWindowBounds"}]
  IN IF ~SettingsEmpty(k.ws)
       THEN Rejected(k1, "WindowNameNotDefined")
       ELSE ExecuteInAvailableDisplays([k1 EXCEPT !.cont = <<"thrown">>, !.out = NotDefined],
                                       "get-window-bounds", "getWindowBounds.wait")

----------------------------------------------------------------------------
(* Starting a call. *)

Pending == [st |-> "pending", val |-> Nil]

CanStart(p) == pc[p] = "idle" /\ nOps[p] < MaxOps

Begin(p, name, arg) ==
  /\ opName' = [opName EXCEPT ![p] = name]
  /\ opArg' = [opArg EXCEPT ![p] = arg]
  /\ opPrev' = [opPrev EXCEPT ![p] = Nil]
  /\ nOps' = [nOps EXCEPT ![p] = @ + 1]

\* new DisplayContext(name, window_settings, io); the object p held before is
\* no longer tracked
NewDisplayContext(p, name) ==
  /\ dcName' = [dcName EXCEPT ![p] = name]
  /\ displayWindows' = [displayWindows EXCEPT ![p] = EmptyMap]
  /\ viewObjects' = [viewObjects EXCEPT ![p] = EmptyMap]
  /\ quitHandler' = [quitHandler EXCEPT ![p] = FALSE]
  /\ lastQuit' = [lastQuit EXCEPT ![p] = NoQuit]
  /\ signals' = [signals EXCEPT ![p] = [d \in Displays |-> 0]]

Fresh(p) == [Frame(p) EXCEPT !.out = Pending, !.cmds = {}, !.exec = NoExec]

\* restoreFromDisplayWorkerStates(reset), up to its broadcast
RestoreFromDisplayWorkerStates(k) ==
  ExecuteInAvailableDisplays(k, "get-dw-context-windows-vbo", "restore.wait")

\* DisplayContextFactory.create(display_ctx_name, window_settings)
Create(p, name, ws) ==
  /\ CanStart(p)
  /\ Begin(p, "create", [ctx |-> name, reset |-> FALSE, win |-> Nil])
  /\ NewDisplayContext(p, name)
  /\ Apply(p, RestoreFromDisplayWorkerStates([Fresh(p) EXCEPT !.ws = ConstructedSettings(ws)]))
  /\ UNCHANGED <<gen, closedHandler, queues, store, storeQ>>

\* DisplayContextFactory.setActive(display_ctx_name, reset): getset is sent
SetActive(p, name, reset) ==
  /\ CanStart(p)
  /\ Begin(p, "setActive", [ctx |-> name, reset |-> reset, win |-> Nil])
  /\ storeQ' = [storeQ EXCEPT ![p] = Append(@, [cmd |-> "getset", val |-> name, awaited |-> TRUE])]
  /\ Apply(p, [Fresh(p) EXCEPT !.pc = "setActive.getset"])
  /\ UNCHANGED <<gen, closedHandler, queues, store, signals, dcRest>>

\* a method of the process's DisplayContext that starts with a broadcast
StartsWithBroadcast(p, name, reset, cmd) ==
  /\ CanStart(p)
  /\ dcName[p] # Nil
  /\ Begin(p, name, [ctx |-> dcName[p], reset |-> reset, win |-> Nil])
  /\ Apply(p, ExecuteInAvailableDisplays(Fresh(p), cmd, name \o ".wait"))
  /\ UNCHANGED <<envVars, dcRest>>

\* DisplayContext.restoreFromDisplayWorkerStates(reset)
Restore(p, reset) == StartsWithBroadcast(p, "restore", reset, "get-dw-context-windows-vbo")

\* DisplayContext.show()
Show(p) == StartsWithBroadcast(p, "show", FALSE, "set-display-context")

\* DisplayContext.hide()
Hide(p) == StartsWithBroadcast(p, "hide", FALSE, "hide-display-context")

\* DisplayContext.close()
Close(p) == StartsWithBroadcast(p, "close", FALSE, "close-display-context")

\* DisplayContext.createViewObject(options, windowName)
CreateViewObject(p, windowName) ==
  /\ CanStart(p)
  /\ dcName[p] # Nil
  /\ Begin(p, "createViewObject", [ctx |-> dcName[p], reset |-> FALSE, win |-> windowName])
  /\ Apply(p,
       IF windowName \in DOMAIN displayWindows[p]
         THEN Sent(Fresh(p),
                   <<<<DisplayQueue(displayWindows[p][windowName].displayName), windowName>>>>,
                   "create-viewobj", "createViewObject.wait")
         ELSE IF gen = "js"
           THEN GetWindowBounds(Fresh(p), "windowNameCheck", windowName)
           ELSE ThrowsNotDefined(Fresh(p)))
  /\ UNCHANGED <<envVars, dcRest>>

\* DisplayContext.onDisplayWorkerQuit(handler)
OnDisplayWorkerQuit(p) ==
  /\ pc[p] = "idle"
  /\ dcName[p] # Nil
  /\ ~quitHandler[p]
  /\ quitHandler' = [quitHandler EXCEPT ![p] = TRUE]
  /\ UNCHANGED <<envVars, published, callVars, dcName, displayWindows, viewObjects,
                 window_settings, lastQuit>>

----------------------------------------------------------------------------
(* The store executes the commands of one connection in the order sent.   *)

StoreHead(p, cmd) == storeQ[p] # <<>> /\ Head(storeQ[p]).cmd = cmd

\* setActive: getset executes and its reply reaches the caller
SetActiveGetset(p) ==
  /\ StoreHead(p, "getset") /\ Head(storeQ[p]).awaited
  /\ pc[p] = "setActive.getset"
  /\ store' = StoredAfterGetset(store, Head(storeQ[p]).val)
  /\ storeQ' = [storeQ EXCEPT ![p] = Tail(@)]
  /\ opPrev' = [opPrev EXCEPT ![p] = store]
  /\ IF AlreadyActive(store, opArg[p].ctx)
       THEN /\ Apply(p, Settled(Frame(p), "resolved", "false"))
            /\ UNCHANGED <<signals, dcRest>>
       ELSE /\ NewDisplayContext(p, opArg[p].ctx)
            /\ Apply(p, RestoreFromDisplayWorkerStates(
                          [Frame(p) EXCEPT !.ws = ConstructedSettings(EmptyMap)]))
  /\ UNCHANGED <<gen, closedHandler, queues, opName, opArg, nOps>>

\* show: the write of the name, whose reply nobody waits for
StoreSet(p) ==
  /\ StoreHead(p, "getset") /\ ~Head(storeQ[p]).awaited
  /\ store' = StoredAfterGetset(store, Head(storeQ[p]).val)
  /\ storeQ' = [storeQ EXCEPT ![p] = Tail(@)]
  /\ UNCHANGED <<gen, closedHandler, queues, published, signals, dcVars, callVars>>

\* close: the read of the key and its callback, which sends del when the value
\* read is this.name (kept in the command for reference)
StoreGet(p) ==
  /\ StoreHead(p, "get") /\ ~Head(storeQ[p]).awaited
  /\ storeQ' = [storeQ EXCEPT ![p] =
       Tail(@) \o (IF store = Head(@).val
                     THEN <<[cmd |-> "del", val |-> Head(@).val, awaited |-> FALSE]>>
                     ELSE <<>>)]
  /\ UNCHANGED <<gen, closedHandler, queues, store, published, signals, dcVars, callVars>>

\* close: del executes
StoreDel(p) ==
  /\ StoreHead(p, "del")
  /\ store' = Nil
  /\ storeQ' = [storeQ EXCEPT ![p] = Tail(@)]
  /\ UNCHANGED <<gen, closedHandler, queues, published, signals, dcVars, callVars>>

----------------------------------------------------------------------------
(* The RPCs in flight.  A worker answers while its queue exists; what it  *)
(* answers is drawn when the caller reads the replies.                    *)

AnyReplied(p) == \E i \in 1..Len(calls[p]) : Answers(calls[p][i].to)

\* Promise.all: every call has been answered
AllReplied(p) == \A i \in 1..Len(calls[p]) : Answers(calls[p][i].to)

\* one request is never answered: the call rejects, and with it Promise.all
CallFails(p) ==
  /\ \E i \in 1..Len(calls[p]) : Unanswerable(calls[p][i].to)
  /\ Apply(p, Rejected(Frame(p), "CallFailed"))
  /\ UNCHANGED <<envVars, dcRest, opVars>>

----------------------------------------------------------------------------
(* The callbacks that run when every reply is in. *)

SetMaps(p, dw, vo) ==
  /\ displayWindows' = [displayWindows EXCEPT ![p] = dw]
  /\ viewObjects' = [viewObjects EXCEPT ![p] = vo]

DwStatesOf(c) == DwStateReplies(ClosedDisplayOf(c.to))

TakesInitializationAlways(windowCount) == TRUE

\* `windowCount === 0`
TakesInitialization(windowCount) == windowCount = 0

\* restoreFromDisplayWorkerStates, the callback on the states
RestoreStates(p) ==
  /\ pc[p] = "restore.wait" /\ AllReplied(p)
  /\ \E states \in ReplyLists(calls[p], DwStatesOf) :
       /\ SetMaps(p, Restored(states).dw, Restored(states).vo)
       /\ Apply(p, LET k == [Frame(p) EXCEPT !.calls = <<>>]
                   IN IF TakesInitialization(WindowCount(states))
                        THEN GetWindowBounds(k, "initialize", Nil)
                        ELSE IF opArg[p].reset
                          THEN CallShow(k, <<"reloadAll">>)
                          ELSE CallShow(k, <<>>))
  /\ UNCHANGED <<envVars, dcName, quitHandler, lastQuit, opVars>>

BoundsOf(c) == BoundsReplies(ClosedDisplayOf(c.to))

\* getWindowBounds, the callback on the bounds
WindowBounds(p) ==
  /\ pc[p] = "getWindowBounds.wait" /\ AllReplied(p)
  /\ \E bounds \in ReplyLists(calls[p], BoundsOf) :
       Apply(p, LET k == [Frame(p) EXCEPT !.calls = <<>>, !.ws = BoundMap(bounds)]
                IN IF Head(cont[p]) = "thrown"
                     THEN Settled(k, "resolved", "result")
                     ELSE BoundsKnown([k EXCEPT !.cont = Tail(cont[p])], BoundMap(bounds),
                                      Head(cont[p]), opArg[p].win))
  /\ UNCHANGED <<envVars, dcRest, opVars>>

ReloadTargetsNone(vo) == <<>>

\* reloadAll: one 'reload' per view object, each to its own display
ReloadTargets(vo) ==
  [i \in 1..Len(KeysSeq(vo)) |->
     <<DisplayQueue(vo[KeysSeq(vo)[i]].displayName), KeysSeq(vo)[i]>>]

\* initialize: one 'create-window' per key of the options, to options[k].displayName
CreateWindowTargets(options) ==
  [i \in 1..Len(KeysSeq(options)) |->
     <<DisplayQueue(options[KeysSeq(options)[i]].displayName), KeysSeq(options)[i]>>]

\* reloadAll()
ReloadAll(p, k) ==
  IF DOMAIN viewObjects[p] = {}
    THEN Resolved(p, k)
    ELSE Sent(k, ReloadTargets(viewObjects[p]), "reload", "reloadAll.wait")

\* show, the callback on the replies: the name is written to the store; then
\* what show() was called for
Shown(p) ==
  /\ pc[p] = "show.wait" /\ AllReplied(p)
  /\ storeQ' = [storeQ EXCEPT ![p] =
       Append(@, [cmd |-> "getset", val |-> dcName[p], awaited |-> FALSE])]
  /\ Apply(p, LET k == [Frame(p) EXCEPT !.calls = <<>>]
              IN CASE cont[p] # <<>> /\ Head(cont[p]) = "reloadAll" ->
                        ReloadAll(p, [k EXCEPT !.cont = Tail(cont[p])])
                   [] cont[p] # <<>> /\ Head(cont[p]) = "createWindows" ->
                        Sent([k EXCEPT !.cont = Tail(cont[p])], CreateWindowTargets(k.ws),
                             "create-window", "initialize.wait")
                   [] OTHER -> Resolved(p, k))
  /\ UNCHANGED <<gen, closedHandler, queues, store, signals, dcRest, opVars>>

\* initialize, the loop over the replies: displayWindows.set(res.windowName, ...)
RECURSIVE RegisterWindows(_, _, _)
RegisterWindows(dw, m, i) ==
  IF i > Len(m) THEN dw
  ELSE RegisterWindows(Put(dw, m[i].windowName, DisplayWindowOf(m[i])), m, i + 1)

\* initialize, the callback on the 'create-window' replies
Initialized(p) ==
  /\ pc[p] = "initialize.wait" /\ AllReplied(p)
  /\ \E m \in ReplyLists(calls[p],
                         LAMBDA c : CreateWindowReplies(c.to, window_settings[p][c.arg])) :
       displayWindows' = [displayWindows EXCEPT ![p] = RegisterWindows(@, m, 1)]
  /\ Apply(p, Resolved(p, [Frame(p) EXCEPT !.calls = <<>>]))
  /\ UNCHANGED <<envVars, dcName, viewObjects, quitHandler, lastQuit, opVars>>

\* reloadAll and hide resolve with the replies
Replied(p) ==
  /\ pc[p] \in {"reloadAll.wait", "hide.wait"} /\ AllReplied(p)
  /\ Apply(p, Resolved(p, [Frame(p) EXCEPT !.calls = <<>>]))
  /\ UNCHANGED <<envVars, dcRest, opVars>>

\* DisplayWindow.createViewObject resolves and createViewObject registers the
\* view object; display-window.ts throws on status 'error', displaywindow.js
\* does not look at the status
ViewObjectCreated(p) ==
  /\ pc[p] = "createViewObject.wait" /\ AllReplied(p)
  /\ \E m \in CreateViewObjectReplies(calls[p][1].to, calls[p][1].arg) :
       IF gen = "ts" /\ m.status = "error"
         THEN /\ Apply(p, Rejected(Frame(p), "ViewObjectNotCreated"))
              /\ UNCHANGED viewObjects
         ELSE /\ viewObjects' = [viewObjects EXCEPT ![p] =
                   Put(@, m.view_id, ViewObjectOf(m.displayName, m.windowName))]
              /\ Apply(p, Resolved(p, [Frame(p) EXCEPT !.calls = <<>>]))
  /\ UNCHANGED <<envVars, dcName, displayWindows, quitHandler, lastQuit, opVars>>

CloseRepliesOf(c) == CloseReplies(ClosedDisplayOf(c.to))

ClosedDetailsEmpty(m) == <<>>

\* `map`: every reply pushed, in order
ClosedDetails(m) == m

\* close, the callback on the replies
Closed(p) ==
  /\ pc[p] = "close.wait" /\ AllReplied(p)
  /\ \E m \in ReplyLists(calls[p], CloseRepliesOf) :
       IF ~IsHidden(m)
         THEN /\ SetMaps(p, EmptyMap, EmptyMap)
              /\ storeQ' = [storeQ EXCEPT ![p] =
                   Append(@, [cmd |-> "get", val |-> dcName[p], awaited |-> FALSE])]
              /\ Apply(p, [Settled(Frame(p), "resolved", m) EXCEPT
                   !.pub = Append(published,
                             Event("display.displayContext.closed", Nil, Nil, ClosedDetails(m)))])
         ELSE /\ Apply(p, Settled(Frame(p), "resolved", m))
              /\ UNCHANGED <<storeQ, displayWindows, viewObjects>>
  /\ UNCHANGED <<gen, closedHandler, queues, store, signals, dcName, quitHandler, lastQuit, opVars>>

----------------------------------------------------------------------------
(* The workers come and go; every DisplayContext object hears of it.      *)

Signalled(d) ==
  [p \in Procs |-> IF dcName[p] # Nil
                     THEN [signals[p] EXCEPT ![d] = @ + 1]
                     ELSE signals[p]]

\* a display worker finishes starting
WorkerUp(d) ==
  /\ queues[DisplayQueue(d)] = "starting"
  /\ queues' = [queues EXCEPT ![DisplayQueue(d)] = "running"]
  /\ UNCHANGED <<gen, closedHandler, store, storeQ, published, signals, dcVars, callVars>>

\* a display worker announces its removal on 'display.removed'
WorkerRemoved(d) ==
  /\ IsLiveState(queues[DisplayQueue(d)])
  /\ queues' = [queues EXCEPT ![DisplayQueue(d)] = "draining"]
  /\ signals' = Signalled(d)
  /\ UNCHANGED <<gen, closedHandler, store, storeQ, published, dcVars, callVars>>

\* the queue of a display worker is deleted
QueueDeleted(d) ==
  /\ queues[DisplayQueue(d)] \in {"live", "running", "draining"}
  /\ queues' = [queues EXCEPT ![DisplayQueue(d)] = "gone"]
  /\ signals' = Signalled(d)
  /\ UNCHANGED <<gen, closedHandler, store, storeQ, published, dcVars, callVars>>

\* _clean(closedDisplay), run by either subscription of the constructor
Clean(p, closedDisplay) ==
  /\ signals[p][closedDisplay] > 0
  /\ signals' = [signals EXCEPT ![p][closedDisplay] = @ - 1]
  /\ displayWindows' = [displayWindows EXCEPT ![p] =
       Without(@, ClosedWindows(@, closedDisplay))]
  /\ viewObjects' = [viewObjects EXCEPT ![p] = Without(@, VboToRemove(@, closedDisplay))]
  /\ lastQuit' = [lastQuit EXCEPT ![p] =
       IF quitHandler[p]
         THEN [closedDisplay |-> closedDisplay,
               closedWindows |-> ClosedWindows(displayWindows[p], closedDisplay),
               closedViewObjects |-> VboToRemove(viewObjects[p], closedDisplay)]
         ELSE @]
  /\ UNCHANGED <<gen, closedHandler, queues, store, storeQ, published, dcName, window_settings,
                 quitHandler, callVars>>

----------------------------------------------------------------------------

\* the calls in flight move on
Progress(p) ==
  \/ CallFails(p)
  \/ RestoreStates(p)
  \/ WindowBounds(p)
  \/ Shown(p)
  \/ Initialized(p)
  \/ Replied(p)
  \/ ViewObjectCreated(p)
  \/ Closed(p)
  \/ StoreSet(p)
  \/ StoreGet(p)
  \/ StoreDel(p)

\* the workers that leave
Leaving == {"d1"}

Environment ==
  \/ \E d \in Displays : WorkerUp(d)
  \/ \E d \in Leaving : WorkerRemoved(d) \/ QueueDeleted(d)
  \/ \E p \in Procs, d \in Displays : Clean(p, d)

\* One client and its DisplayContext, with workers that come and go.
Next ==
  \/ \E name \in {"A"}, ws \in WindowSettingsChoices : Create("p1", name, ws)
  \/ \E reset \in BOOLEAN : Restore("p1", reset)
  \/ Show("p1")
  \/ Hide("p1")
  \/ Close("p1")
  \/ \E w \in Displays : CreateViewObject("p1", w)
  \/ OnDisplayWorkerQuit("p1")
  \/ Progress("p1")
  \/ Environment

Spec == Init /\ [][Next]_vars

----------------------------------------------------------------------------

\* the calls of the factory's clients move on
FactoryProgress(p) ==
  \/ SetActiveGetset(p)
  \/ RestoreStates(p)
  \/ WindowBounds(p)
  \/ Shown(p)
  \/ Initialized(p)
  \/ Closed(p)
  \/ StoreSet(p)
  \/ StoreGet(p)
  \/ StoreDel(p)

\* Two clients of one store, each with its own factory, and one worker.
FactoryNext ==
  \/ \E p \in Procs, name \in Contexts : SetActive(p, name, FALSE)
  \/ Close("p1")
  \/ \E p \in Procs : FactoryProgress(p)

\* the factory and the DisplayContext it creates are the TypeScript sources
FactoryInit == Init /\ gen = "ts"

FactorySpec == FactoryInit /\ [][FactoryNext]_vars

----------------------------------------------------------------------------
(* Properties. *)

\* the step in which the callback of a broadcast awaited at `at` runs
CallbackRuns(p, at) == pc[p] = at /\ AllReplied(p) /\ pc'[p] # at

HideReported(m) == \E i \in 1..Len(m) : m[i].command = "hide-display-context"

\* C1: a broadcast that finds no display queue in state live or running
\* rejects with 'No display-worker found': it sends no request, waits for no
\* reply and the call never resolves.
NoWorkerRejects ==
  \A p \in Procs :
    (execLog[p].cmd # Nil /\ execLog[p].found = 0) =>
      /\ execLog[p].rejected
      /\ execLog[p].sent = 0
      /\ execLog[p].cmd \notin opCmds[p]
      /\ pc[p] = "idle" /\ calls[p] = <<>>
      /\ outcome[p].st # "resolved"

NoWorkerRejectsSeen ==
  \E p \in Procs :
    /\ execLog[p].cmd = "set-display-context" /\ execLog[p].found = 0
    /\ outcome[p] = [st |-> "rejected", val |-> "NoDisplayWorkerFound"]

\* C2: every entry of viewObjects names a window that is a key of
\* displayWindows of the same context (entries made from an error reply, which
\* name no window at all, set aside).
NoDanglingPanes ==
  \A p \in Procs : \A v \in DOMAIN viewObjects[p] :
    viewObjects[p][v].windowName # Nil =>
      viewObjects[p][v].windowName \in DOMAIN displayWindows[p]

\* the step in which the reply of setActive's getset reaches the caller
GetsetReturns(p) == pc[p] = "setActive.getset" /\ pc'[p] # "setActive.getset"

\* C3: a setActive whose getset reads the requested name returns false, sends
\* no RPC, publishes nothing and leaves the pointer as it was.
SetActiveIdempotent ==
  [][\A p \in Procs :
       (GetsetReturns(p) /\ store = opArg[p].ctx) =>
         /\ outcome'[p] = [st |-> "resolved", val |-> "false"]
         /\ pc'[p] = "idle" /\ calls'[p] = <<>> /\ opCmds'[p] = {}
         /\ published' = published
         /\ store' = store]_vars

SetActiveTwice ==
  \E p \in Procs :
    /\ nOps[p] = 2 /\ opName[p] = "setActive"
    /\ outcome[p] = [st |-> "resolved", val |-> "false"]
    /\ \E i \in 1..Len(published) :
         /\ published[i].topic = "display.displayContext.changed"
         /\ published[i].displayContext = opArg[p].ctx
    /\ Len(published) = 1

SetActiveReturnsPrevious ==
  \A p \in Procs :
    (/\ opName[p] = "setActive" /\ outcome[p].st = "resolved"
     /\ opPrev[p] # opArg[p].ctx) =>
      outcome[p].val = opPrev[p]

\* C6: when a reply to 'close-display-context' reports 'hide-display-context',
\* close leaves displayWindows and viewObjects as they were, sends the store
\* nothing and publishes nothing.
CloseThenHidden ==
  [][\A p \in Procs :
       (/\ CallbackRuns(p, "close.wait")
        /\ outcome'[p].st = "resolved" /\ HideReported(outcome'[p].val)) =>
         /\ displayWindows'[p] = displayWindows[p]
         /\ viewObjects'[p] = viewObjects[p]
         /\ storeQ' = storeQ /\ store' = store
         /\ published' = published]_vars

ClosedHidden ==
  \E p \in Procs :
    /\ opName[p] = "close" /\ outcome[p].st = "resolved"
    /\ Len(outcome[p].val) = 2
    /\ outcome[p].val[1].command = "close-display-context"
    /\ outcome[p].val[2].command = "hide-display-context"
    /\ DOMAIN displayWindows[p] # {} /\ DOMAIN viewObjects[p] # {}

\* C7: when no reply to 'close-display-context' reports a hide, close empties
\* displayWindows and viewObjects and publishes one
\* 'display.displayContext.closed' whose details are the replies, one per
\* worker the request went to.
CloseClears ==
  [][\A p \in Procs :
       (/\ CallbackRuns(p, "close.wait")
        /\ outcome'[p].st = "resolved" /\ ~HideReported(outcome'[p].val)) =>
         /\ DOMAIN displayWindows'[p] = {} /\ DOMAIN viewObjects'[p] = {}
         /\ published' = Append(published,
              Event("display.displayContext.closed", Nil, Nil, outcome'[p].val))
         /\ Len(outcome'[p].val) = Len(calls[p])
         /\ \A i \in 1..Len(calls[p]) :
              outcome'[p].val[i].displayName = ClosedDisplayOf(calls[p][i].to)]_vars

ClosedByAll ==
  \E p \in Procs :
    /\ opName[p] = "close" /\ outcome[p].st = "resolved"
    /\ Len(outcome[p].val) = 2 /\ ~HideReported(outcome[p].val)
    /\ published # <<>>
    /\ published[Len(published)].topic = "display.displayContext.closed"
    /\ Len(published[Len(published)].details) = 2

\* C8: the del of close removes the key only while the key holds the name of
\* the context being closed.
CloseDeletesOwnPointer ==
  [][\A p \in Procs :
       (/\ StoreHead(p, "del") /\ storeQ'[p] = Tail(storeQ[p])
        /\ store # Nil /\ store' = Nil) =>
         store = Head(storeQ[p]).val]_vars

\* C9: _clean(D) removes the windows and the view objects whose displayName
\* is D, keeps every other entry as it was, and hands a registered quit
\* handler D and the names it removed.
CleanRemovesExactly ==
  [][\A p \in Procs, d \in Displays :
       (signals'[p][d] = signals[p][d] - 1 /\ nOps' = nOps /\ pc' = pc) =>
         LET goneW == {k \in DOMAIN displayWindows[p] : displayWindows[p][k].displayName = d}
             goneV == {k \in DOMAIN viewObjects[p] : viewObjects[p][k].displayName = d}
         IN /\ displayWindows'[p] =
                 [k \in (DOMAIN displayWindows[p]) \ goneW |-> displayWindows[p][k]]
            /\ viewObjects'[p] =
                 [k \in (DOMAIN viewObjects[p]) \ goneV |-> viewObjects[p][k]]
            /\ lastQuit'[p] =
                 IF quitHandler[p]
                   THEN [closedDisplay |-> d, closedWindows |-> goneW,
                         closedViewObjects |-> goneV]
                   ELSE lastQuit[p]]_vars

CleanedOneOfTwo ==
  \E p \in Procs :
    /\ lastQuit[p].closedDisplay = "d1"
    /\ lastQuit[p].closedWindows = {"d1"}
    /\ lastQuit[p].closedViewObjects = {"v1"}
    /\ DOMAIN displayWindows[p] = {"d2"}
    /\ DOMAIN viewObjects[p] = {"v2"}

\* C10: the callback of restoreFromDisplayWorkerStates calls getWindowBounds
\* (and from there initialize) exactly when the replies report no window, and
\* a 'create-window' is only ever sent after getWindowBounds was called.
InitializationIffNoWindow ==
  [][\A p \in Procs :
       /\ CallbackRuns(p, "restore.wait") =>
            ((DOMAIN displayWindows'[p] = {}) <=> ("getWindowBounds" \in opCmds'[p]))
       /\ (/\ opName'[p] \in {"create", "restore", "setActive"}
           /\ "create-window" \in opCmds'[p]) =>
            "getWindowBounds" \in opCmds'[p]]_vars

InitializedFromSettings ==
  \E p \in Procs :
    /\ opName[p] = "create" /\ outcome[p].st = "resolved"
    /\ "create-window" \in opCmds[p]
    /\ "get-window-bounds" \notin opCmds[p]
    /\ DOMAIN displayWindows[p] # {}

----------------------------------------------------------------------------

\* C11: the value of 'display:activeDisplayContext' changes only when a getset
\* executes.
PointerChangedByGetsetOnly ==
  [][store' # store =>
       \E p \in Procs : StoreHead(p, "getset") /\ storeQ'[p] = Tail(storeQ[p])]_vars

\* a createViewObject for a window that displayWindows did not have has ended,
\* and no worker it could have talked to ever left
MissingWindowCallEnded(p) ==
  /\ opName[p] = "createViewObject" /\ pc[p] = "idle"
  /\ "getWindowBounds" \in opCmds[p]
  /\ queues[DisplayQueue("d1")] = "live"

\* C12: createViewObject for a window missing from displayWindows but named
\* by the window settings resolves, with a view object registered under that
\* window.
MissingWindowIsInitialized ==
  \A p \in Procs :
    (MissingWindowCallEnded(p) /\ opArg[p].win \in DOMAIN window_settings[p]) =>
      /\ outcome[p].st = "resolved"
      /\ \E v \in DOMAIN viewObjects[p] : viewObjects[p][v].windowName = opArg[p].win

\* C13: createViewObject whose initialization ran and left the window absent
\* from displayWindows fails.
StillMissingFails ==
  \A p \in Procs :
    (/\ MissingWindowCallEnded(p) /\ "create-window" \in opCmds[p]
     /\ opArg[p].win \notin DOMAIN displayWindows[p]) =>
      outcome[p].st = "rejected"

\* a step of p's call in flight (not a delivery of a removal signal)
CallMoves(p) == signals' = signals /\ (pc'[p] # pc[p] \/ nOps'[p] # nOps[p])

\* C14: createViewObject for a window that is neither in displayWindows nor
\* in the window settings sends no 'create-window' and no 'create-viewobj',
\* leaves displayWindows and viewObjects as they were and, the bounds known,
\* fails with 'windowName ... is not defined'.
UndefinedWindowFails ==
  [][\A p \in Procs :
       (/\ CallMoves(p)
        /\ opName'[p] = "createViewObject" /\ "getWindowBounds" \in opCmds'[p]
        /\ opArg'[p].win \notin DOMAIN window_settings'[p]) =>
         /\ displayWindows'[p] = displayWindows[p]
         /\ viewObjects'[p] = viewObjects[p]
         /\ opCmds'[p] \cap {"create-window", "create-viewobj", "set-display-context"} = {}
         /\ (pc'[p] = "idle" /\ outcome'[p].val \notin {"NoDisplayWorkerFound", "CallFailed"}) =>
              outcome'[p] = [st |-> "rejected", val |-> "WindowNameNotDefined"]]_vars

UndefinedWindowSeen ==
  \E p \in Procs :
    /\ gen = "js" /\ opName[p] = "createViewObject" /\ pc[p] = "idle"
    /\ "get-window-bounds" \in opCmds[p]
    /\ DOMAIN window_settings[p] # {}
    /\ opArg[p].win \notin DOMAIN window_settings[p]
    /\ outcome[p] = [st |-> "rejected", val |-> "WindowNameNotDefined"]

\* C15: no entry of displayWindows or of viewObjects is made from a reply with
\* status 'error' (such a reply carries no window name and no view id).
ErrorReplyRegistersNothing ==
  \A p \in Procs : Nil \notin DOMAIN displayWindows[p] /\ Nil \notin DOMAIN viewObjects[p]

BroadcastWaits == {"restore.wait", "getWindowBounds.wait", "show.wait", "hide.wait", "close.wait"}

\* C17: a broadcast sends one request to each queue of the listing whose state
\* is live or running and whose name is 'rpc-display-...', in the order of
\* the listing, and to no other queue.
DiscoverySelectsLive ==
  [][\A p \in Procs :
       (pc'[p] \in BroadcastWaits /\ pc'[p] # pc[p]) =>
         LET chosen == SelectSeq(QueueOrder,
                         LAMBDA q : queues[q] \in {"live", "running"} /\ q[1] = "rpc-display-")
         IN /\ Len(calls'[p]) = Len(chosen)
            /\ \A i \in 1..Len(chosen) : calls'[p][i].to = chosen[i]]_vars

DiscoverySkipsDraining ==
  \E p \in Procs :
    /\ pc[p] \in BroadcastWaits /\ execLog[p].found = 1
    /\ calls[p][1].to = DisplayQueue("d2")
    /\ queues[DisplayQueue("d1")] = "draining"

\* C18: the callback of a broadcast runs only when every worker the request
\* went to has answered; when one of them is gone the call ends without
\* resolving and without touching the cache, the store or the topics; the
\* replies close() resolves with are in the order of the requests.
FanOutFailsFast ==
  [][\A p \in Procs :
       (pc[p] \in BroadcastWaits /\ pc'[p] # pc[p]) =>
         IF \E i \in 1..Len(calls[p]) : queues[calls[p][i].to] = "gone"
           THEN /\ pc'[p] = "idle" /\ outcome'[p].st # "resolved"
                /\ displayWindows' = displayWindows /\ viewObjects' = viewObjects
                /\ storeQ' = storeQ /\ published' = published
           ELSE /\ \A i \in 1..Len(calls[p]) :
                     queues[calls[p][i].to] \in {"live", "running", "draining"}
                /\ (pc[p] = "close.wait" /\ outcome'[p].st = "resolved") =>
                     /\ Len(outcome'[p].val) = Len(calls[p])
                     /\ \A i \in 1..Len(calls[p]) :
                          outcome'[p].val[i].displayName = calls[p][i].to[2]]_vars

FanOutFailed ==
  \E p \in Procs :
    /\ execLog[p].found = 2 /\ execLog[p].sent = 2
    /\ outcome[p] = [st |-> "rejected", val |-> "CallFailed"]
    /\ queues[DisplayQueue("d1")] = "gone" /\ queues[DisplayQueue("d2")] = "running"

\* C20: when the replies report a window, the callback of show() in
\* restoreFromDisplayWorkerStates sends, with reset, one 'reload' per entry of
\* viewObjects to that entry's display and stays pending while any is to be
\* answered; without reset it resolves and sends nothing.
ResetReloadsEveryPane ==
  [][\A p \in Procs :
       (/\ CallbackRuns(p, "show.wait")
        /\ opName[p] \in {"restore", "create", "setActive"}
        /\ "getWindowBounds" \notin opCmds[p]) =>
         IF opArg[p].reset
           THEN /\ Len(calls'[p]) = Cardinality(DOMAIN viewObjects[p])
                /\ \A v \in DOMAIN viewObjects[p] :
                     \E i \in 1..Len(calls'[p]) :
                       calls'[p][i] = [to |-> DisplayQueue(viewObjects[p][v].displayName),
                                       arg |-> v]
                /\ IF DOMAIN viewObjects[p] = {}
                     THEN pc'[p] = "idle" /\ outcome'[p].st = "resolved"
                     ELSE /\ pc'[p] = "reloadAll.wait" /\ outcome'[p].st = "pending"
                          /\ "reload" \in opCmds'[p]
                /\ "create-window" \notin opCmds'[p]
           ELSE /\ pc'[p] = "idle" /\ outcome'[p].st = "resolved"
                /\ calls'[p] = <<>>
                /\ opCmds'[p] \cap {"reload", "create-window"} = {}]_vars

ReloadingTwoPanes ==
  \E p \in Procs :
    /\ opName[p] = "restore" /\ opArg[p].reset
    /\ pc[p] = "reloadAll.wait" /\ Len(calls[p]) = 2
    /\ DOMAIN viewObjects[p] = {"v1", "v2"}

----------------------------------------------------------------------------
(* DisplayWindow.close and ViewObject.close, called on the objects the    *)
(* context holds.                                                         *)

\* replies to 'close-window': the view objects the worker destroyed
CloseWindowReplies(q, w) ==
  {[command |-> "close-window", status |-> "success", viewObjects |-> vs] :
     vs \in {<<>>, <<PaneOf(ClosedDisplayOf(q))>>}}

\* displayWindows.get(w).close()
CloseWindow(p, w) ==
  /\ CanStart(p)
  /\ w \in DOMAIN displayWindows[p]
  /\ Begin(p, "closeWindow", [ctx |-> dcName[p], reset |-> FALSE, win |-> w])
  /\ Apply(p, Sent(Fresh(p), <<<<DisplayQueue(displayWindows[p][w].displayName), w>>>>,
                   "close-window", "closeWindow.wait"))
  /\ UNCHANGED <<envVars, dcRest>>

\* DisplayWindow.close, the callback on the reply.  displaywindow.js calls
\* this.getViewObjectById and this.destroy, which DisplayWindow does not
\* define; display-window.ts calls getViewObject on options.displayContext,
\* which is the DisplayContext for a window made by
\* restoreFromDisplayWorkerStates (fromRestore) and what the worker's reply
\* carried for a window made by initialize.
WindowClosed(p) ==
  /\ pc[p] = "closeWindow.wait" /\ AllReplied(p)
  /\ \E m \in CloseWindowReplies(calls[p][1].to, calls[p][1].arg), fromRestore \in BOOLEAN :
       Apply(p, IF gen = "js" \/ (m.viewObjects # <<>> /\ ~fromRestore)
                  THEN Rejected(Frame(p), "TypeError")
                  ELSE Settled(Frame(p), "resolved", "result"))
  /\ UNCHANGED <<envVars, dcRest, opVars>>

\* viewObjects.get(v).close()
CloseViewObject(p, v) ==
  /\ CanStart(p)
  /\ v \in DOMAIN viewObjects[p]
  /\ Begin(p, "closeViewObject", [ctx |-> dcName[p], reset |-> FALSE, win |-> v])
  /\ Apply(p, Sent(Fresh(p), <<<<DisplayQueue(viewObjects[p][v].displayName), v>>>>,
                   "close", "closeViewObject.wait"))
  /\ UNCHANGED <<envVars, dcRest>>

\* ViewObject.close resolves with the reply
ViewObjectClosed(p) ==
  /\ pc[p] = "closeViewObject.wait" /\ AllReplied(p)
  /\ Apply(p, Settled(Frame(p), "resolved", "result"))
  /\ UNCHANGED <<envVars, dcRest, opVars>>

CacheProgress(p) ==
  \/ RestoreStates(p)
  \/ WindowBounds(p)
  \/ Shown(p)
  \/ Initialized(p)
  \/ StoreSet(p)
  \/ WindowClosed(p)
  \/ ViewObjectClosed(p)

\* One client that closes the windows and view objects of its context.
CacheNext ==
  \/ \E ws \in WindowSettingsChoices : Create("p1", "A", ws)
  \/ \E w \in Displays : CloseWindow("p1", w)
  \/ \E v \in ViewIds : CloseViewObject("p1", v)
  \/ CacheProgress("p1")
  \/ \E d \in Displays : WorkerUp(d)

CacheSpec == Init /\ [][CacheNext]_vars

\* C16: after DisplayWindow.close() resolved for window W, W is not in
\* displayWindows and no entry of viewObjects is in W; after
\* ViewObject.close() resolved for a view object, it is not in viewObjects.
ExplicitCloseRemoves ==
  \A p \in Procs :
    /\ (opName[p] = "closeWindow" /\ outcome[p].st = "resolved") =>
         /\ opArg[p].win \notin DOMAIN displayWindows[p]
         /\ \A v \in DOMAIN viewObjects[p] : viewObjects[p][v].windowName # opArg[p].win
    /\ (opName[p] = "closeViewObject" /\ outcome[p].st = "resolved") =>
         opArg[p].win \notin DOMAIN viewObjects[p]

----------------------------------------------------------------------------
(* DisplayWorker.openDisplayWorker(name, display, contentGrid)            *)

\* the listing and the requests of getDisplays() and list(): one request per
\* available display; with none, Promise.all resolves with no reply
FactoryFanOut(k, cmd, waitPc) ==
  LET ps == AvailableDisplayNames(queues)
  IN Sent([k EXCEPT !.exec = [cmd |-> cmd, found |-> Len(ps), sent |-> Len(ps),
                              rejected |-> FALSE]],
          [i \in 1..Len(ps) |-> <<ps[i], Nil>>], cmd, waitPc)

\* DisplayContextFactory.getDisplays()
GetDisplays(k) == FactoryFanOut(k, "get-display-bounds", "getDisplays.wait")

OpenDisplayWorker(p, name, display) ==
  /\ CanStart(p)
  /\ Begin(p, "openDisplayWorker", [ctx |-> display, reset |-> FALSE, win |-> name])
  /\ Apply(p, GetDisplays(Fresh(p)))
  /\ UNCHANGED <<envVars, dcRest>>

\* the window settings openDisplayWorker hands to create: {main: bounds} with
\* bounds.displayName = name
MainWindowOn(name) == [k \in {"main"} |-> [windowName |-> Nil, displayName |-> name]]

\* openDisplayWorker, the callback on the displays: create(display, {main: bounds})
DisplaysKnown(p) ==
  /\ pc[p] = "getDisplays.wait" /\ AllReplied(p)
  /\ opName[p] = "openDisplayWorker"
  /\ NewDisplayContext(p, opArg[p].ctx)
  /\ Apply(p, RestoreFromDisplayWorkerStates(
                [Frame(p) EXCEPT !.calls = <<>>,
                                 !.ws = ConstructedSettings(MainWindowOn(opArg[p].win))]))
  /\ UNCHANGED <<gen, closedHandler, queues, store, storeQ, opVars>>

\* openDisplayWorker, the callback on the context:
\* displayContext.getDisplayWindowSync(name).clearContents()
DisplayWindowLookedUp(p) ==
  /\ pc[p] = "openDisplayWorker.created"
  /\ Apply(p, IF opArg[p].win \in DOMAIN displayWindows[p]
                THEN Sent(Frame(p),
                          <<<<DisplayQueue(displayWindows[p][opArg[p].win].displayName),
                              opArg[p].win>>>>,
                          "clear-contents", "clearContents.wait")
                ELSE Rejected(Frame(p), "TypeError"))
  /\ UNCHANGED <<envVars, dcRest, opVars>>

\* clearContents resolved: displayWindow.getUniformGridCellSize()
ContentsCleared(p) ==
  /\ pc[p] = "clearContents.wait" /\ AllReplied(p)
  /\ Apply(p, Sent(Frame(p), <<<<calls[p][1].to, calls[p][1].arg>>>>,
                   "uniform-grid-cell-size", "getUniformGridCellSize.wait"))
  /\ UNCHANGED <<envVars, dcRest, opVars>>

\* openDisplayWorker resolves with {displayContext, uniformGridCellSize}
CellSizeKnown(p) ==
  /\ pc[p] = "getUniformGridCellSize.wait" /\ AllReplied(p)
  /\ Apply(p, Settled(Frame(p), "resolved", "displayContextAndCellSize"))
  /\ UNCHANGED <<envVars, dcRest, opVars>>

WorkerProgress(p) ==
  \/ DisplaysKnown(p)
  \/ RestoreStates(p)
  \/ Shown(p)
  \/ CallFails(p)
  \/ StoreSet(p)
  \/ DisplayWindowLookedUp(p)
  \/ ContentsCleared(p)
  \/ CellSizeKnown(p)

\* One client that opens display workers by name.
WorkerNext ==
  \/ \E name \in Displays, display \in Contexts : OpenDisplayWorker("p1", name, display)
  \/ WorkerProgress("p1")
  \/ \E d \in Displays : WorkerUp(d)

WorkerSpec == Init /\ [][WorkerNext]_vars

\* C19: the 'create-window' of openDisplayWorker(name, ...) goes to
\* 'rpc-display-' + name.
WindowCreatedOnNamedWorker ==
  \A p \in Procs :
    (opName[p] = "openDisplayWorker" /\ pc[p] = "initialize.wait") =>
      \A i \in 1..Len(calls[p]) : calls[p][i].to = DisplayQueue(opArg[p].win)

----------------------------------------------------------------------------

\* C21: in the initialization of a context created with declared windows,
\* one 'create-window' is sent per declared window, each to the display the
\* caller declared for that window.
DeclaredOwnerCreatesWindow ==
  \A p \in Procs :
    (/\ opName[p] = "create" /\ pc[p] = "initialize.wait"
     /\ "get-window-bounds" \notin opCmds[p]) =>
      \E ws \in WindowSettingsChoices :
        /\ DOMAIN ws = DOMAIN window_settings[p]
        /\ Len(calls[p]) = Cardinality(DOMAIN ws)
        /\ \A i \in 1..Len(calls[p]) :
             calls[p][i].to = DisplayQueue(ws[calls[p][i].arg].displayName)

\* C22: while restoreFromDisplayWorkerStates waits for the replies to
\* 'get-dw-context-windows-vbo' the call changes neither its maps nor the
\* store nor what the workers show and sends nothing; its callback runs only
\* when every worker asked has answered, and takes one of initialization,
\* show with reload, and show.
SnapshotBeforeMutation ==
  [][\A p \in Procs :
       pc[p] = "restore.wait" =>
         /\ opCmds[p] \cap {"set-display-context", "create-window", "getWindowBounds"} = {}
         /\ Len(storeQ'[p]) <= Len(storeQ[p])
         /\ pc'[p] = "restore.wait" =>
              /\ opCmds'[p] = opCmds[p] /\ shownContext' = shownContext
              /\ signals' = signals =>
                   displayWindows'[p] = displayWindows[p] /\ viewObjects'[p] = viewObjects[p]
         /\ (pc'[p] # "restore.wait" /\ outcome'[p].val # "CallFailed") =>
              /\ \A i \in 1..Len(calls[p]) :
                   queues[calls[p][i].to] \in {"live", "running", "draining"}
              /\ LET initialization == "getWindowBounds" \in opCmds'[p]
                     reload == pc'[p] = "show.wait" /\ cont'[p] = <<"reloadAll">>
                     show == pc'[p] = "show.wait" /\ cont'[p] = <<>>
                 IN /\ initialization => (~reload /\ ~show)
                    /\ reload => opArg[p].reset
                    /\ show => ~opArg[p].reset
                    /\ pc'[p] # "idle" => (initialization \/ reload \/ show)]_vars

RestoredFromTwoReplies ==
  \E p \in Procs :
    /\ opName[p] = "restore" /\ pc[p] = "show.wait"
    /\ DOMAIN displayWindows[p] = {"d1", "d2"}
    /\ opCmds[p] = {"get-dw-context-windows-vbo", "set-display-context"}

\* C23: of the panes the replies of one reconciliation report, exactly those
\* whose window is reported by some reply of that reconciliation are entered
\* in viewObjects.
PaneKeptIffWindowReported ==
  \A p \in Procs :
    (pc[p] = "restore.wait" /\ AllReplied(p)) =>
      \A states \in ReplyLists(calls[p], DwStatesOf) :
        LET reported == UNION {DOMAIN states[i].windows : i \in 1..Len(states)}
        IN \A i \in 1..Len(states) : \A v \in DOMAIN states[i].viewObjects :
             (v \in DOMAIN Restored(states).vo) <=> (states[i].viewObjects[v] \in reported)

----------------------------------------------------------------------------
(* The fan-outs of DisplayContextFactory itself.                          *)

FactoryFanOuts == {"getDisplays", "list", "hideAll", "getFocusedWindows"}

\* getDisplays(), hideAll() and getFocusedWindows() start with getDisplays()
StartsWithGetDisplays(p, name) ==
  /\ CanStart(p)
  /\ Begin(p, name, NoArg)
  /\ Apply(p, GetDisplays(Fresh(p)))
  /\ UNCHANGED <<envVars, dcRest>>

\* DisplayContextFactory.list()
List(p) ==
  /\ CanStart(p)
  /\ Begin(p, "list", NoArg)
  /\ Apply(p, FactoryFanOut(Fresh(p), "get-context-list", "list.wait"))
  /\ UNCHANGED <<envVars, dcRest>>

\* the displays a fan-out has heard from, in the order asked
DisplaysOf(cs) == [i \in 1..Len(cs) |-> ClosedDisplayOf(cs[i].to)]

\* getDisplays, the callback on the bounds: boundMap, and what its caller
\* does with it (one publishRpc per key)
GotDisplays(p) ==
  /\ pc[p] = "getDisplays.wait" /\ AllReplied(p)
  /\ opName[p] \in FactoryFanOuts
  /\ Apply(p, LET m == [i \in 1..Len(calls[p]) |-> <<calls[p][i].to, Nil>>]
              IN CASE opName[p] = "hideAll" ->
                        Sent(Frame(p), m, "hide-all-windows", "hideAll.wait")
                   [] opName[p] = "getFocusedWindows" ->
                        Sent(Frame(p), m, "get-focus-window", "getFocusedWindows.wait")
                   [] OTHER -> Settled(Frame(p), "resolved", DisplaysOf(calls[p])))
  /\ UNCHANGED <<envVars, dcRest, opVars>>

\* hideAll, the callback on the replies: del of the key, then the replies
HiddenAll(p) ==
  /\ pc[p] = "hideAll.wait" /\ AllReplied(p)
  /\ storeQ' = [storeQ EXCEPT ![p] = Append(@, [cmd |-> "del", val |-> Nil, awaited |-> FALSE])]
  /\ Apply(p, Settled(Frame(p), "resolved", DisplaysOf(calls[p])))
  /\ UNCHANGED <<gen, closedHandler, queues, store, signals, dcRest, opVars>>

\* list and getFocusedWindows resolve with what the workers answered
FanOutReplied(p) ==
  /\ pc[p] \in {"list.wait", "getFocusedWindows.wait"} /\ AllReplied(p)
  /\ Apply(p, Settled(Frame(p), "resolved", DisplaysOf(calls[p])))
  /\ UNCHANGED <<envVars, dcRest, opVars>>

RegistryProgress(p) ==
  \/ SetActiveGetset(p)
  \/ RestoreStates(p)
  \/ WindowBounds(p)
  \/ Shown(p)
  \/ Initialized(p)
  \/ CallFails(p)
  \/ StoreSet(p)
  \/ StoreDel(p)
  \/ GotDisplays(p)
  \/ HiddenAll(p)
  \/ FanOutReplied(p)

\* One client of the factory for one context, with a worker that leaves and
\* a worker that comes up.
RegistryNext ==
  \/ SetActive("p1", "A", FALSE)
  \/ \E name \in {"getDisplays", "hideAll", "getFocusedWindows"} : StartsWithGetDisplays("p1", name)
  \/ List("p1")
  \/ RegistryProgress("p1")
  \/ \E d \in Leaving : QueueDeleted(d)
  \/ \E d \in Displays : WorkerUp(d)

RegistrySpec == Init /\ [][RegistryNext]_vars

\* C24: a fan-out of the factory that finds no live display worker does not
\* resolve, and sends the store no del.
FactoryFanOutNeedsWorker ==
  \A p \in Procs :
    (opName[p] \in FactoryFanOuts /\ execLog[p].cmd # Nil /\ execLog[p].found = 0) =>
      /\ outcome[p].st # "resolved"
      /\ \A i \in 1..Len(storeQ[p]) : storeQ[p][i].cmd # "del"

\* C28: with one context in use, when the key holds a name and no call is
\* in flight, the workers have been told to show that context.
ActivePointerWasShown ==
  (store # Nil /\ \A p \in Procs : pc[p] = "idle" /\ storeQ[p] = <<>>) =>
    shownContext = store

----------------------------------------------------------------------------

\* C25: when a reconciliation that found windows has resolved, and a worker
\* has left and every removal signal of it has been handled by _clean, the
\* context holds no window and no view object of that worker.
NoResurrection ==
  \A p \in Procs, d \in Displays :
    (/\ opName[p] \in {"create", "restore"}
     /\ pc[p] = "idle" /\ outcome[p].st = "resolved"
     /\ "create-window" \notin opCmds[p]
     /\ queues[DisplayQueue(d)] \in {"draining", "gone"}
     /\ signals[p][d] = 0) =>
      /\ \A w \in DOMAIN displayWindows[p] : displayWindows[p][w].displayName # d
      /\ \A v \in DOMAIN viewObjects[p] : viewObjects[p][v].displayName # d

\* C26: when the first call of the only client, a create, has resolved, the
\* key holds the name of its context.
ActiveWhenResolved ==
  \A p \in Procs :
    (/\ opName[p] = "create" /\ pc[p] = "idle" /\ outcome[p].st = "resolved"
     /\ nOps[p] = 1 /\ \A q \in Procs \ {p} : nOps[q] = 0) =>
      store = dcName[p]

\* C27: a create that resolves publishes, in the step that resolves it, one
\* 'display.displayContext.created' naming its context; no other step of a
\* create publishes anything, a create that fails included, and nothing else
\* publishes that event.
CreatedAfterRestore ==
  [][/\ \A p \in Procs :
          (opName'[p] = "create" /\ (pc'[p] # pc[p] \/ nOps'[p] # nOps[p])) =>
            IF pc'[p] = "idle" /\ outcome'[p].st = "resolved"
              THEN published' = Append(published,
                     Event("display.displayContext.created", opArg'[p].ctx, Nil, <<>>))
              ELSE published' = published
     /\ (/\ Len(published') > Len(published)
         /\ published'[Len(published')].topic = "display.displayContext.created") =>
          \E p \in Procs : /\ opName[p] = "create" /\ pc[p] # "idle"
                           /\ pc'[p] = "idle" /\ outcome'[p].st = "resolved"]_vars

CreatedThenFailed ==
  \E p \in Procs :
    /\ nOps[p] = 2 /\ opName[p] = "create"
    /\ outcome[p] = [st |-> "rejected", val |-> "NoDisplayWorkerFound"]
    /\ Len(published) = 1
    /\ published[1].topic = "display.displayContext.created"

\* C29: when every setActive has resolved and every store command has
\* executed, the key holds the context the workers were last told to show.
PointerAgreesWithWorkers ==
  (/\ \A p \in Procs : /\ pc[p] = "idle" /\ storeQ[p] = <<>>
                       /\ opName[p] \in {Nil, "setActive"} /\ nOps[p] <= 1
                       /\ outcome[p].st \in {"none", "resolved"}
   /\ shownContext # Nil) =>
    store = shownContext

----------------------------------------------------------------------------
(* DisplayContextFactory.getActive()                                      *)

\* getActive: the read of the key is sent
GetActive(p) ==
  /\ CanStart(p)
  /\ Begin(p, "getActive", NoArg)
  /\ storeQ' = [storeQ EXCEPT ![p] = Append(@, [cmd |-> "get", val |-> Nil, awaited |-> TRUE])]
  /\ Apply(p, [Fresh(p) EXCEPT !.pc = "getActive.get"])
  /\ UNCHANGED <<gen, closedHandler, queues, store, signals, dcRest>>

\* getActive after the await: a DisplayContext of the name read and its
\* reconciliation, or the error
GetActiveRead(p) ==
  /\ StoreHead(p, "get") /\ Head(storeQ[p]).awaited
  /\ pc[p] = "getActive.get"
  /\ storeQ' = [storeQ EXCEPT ![p] = Tail(@)]
  /\ IF store = Nil
       THEN /\ Apply(p, Rejected(Frame(p), "NoDisplayContextIsActive"))
            /\ UNCHANGED <<signals, dcRest>>
       ELSE /\ NewDisplayContext(p, store)
            /\ Apply(p, RestoreFromDisplayWorkerStates(
                          [Frame(p) EXCEPT !.ws = ConstructedSettings(EmptyMap)]))
  /\ UNCHANGED <<gen, closedHandler, queues, store, opVars>>

ActiveProgress(p) ==
  \/ SetActiveGetset(p)
  \/ GetActiveRead(p)
  \/ RestoreStates(p)
  \/ WindowBounds(p)
  \/ Shown(p)
  \/ Initialized(p)
  \/ StoreSet(p)

\* One client that asks for the active context while another activates
\* contexts.
ActiveNext ==
  \/ GetActive("p1")
  \/ \E name \in Contexts : SetActive("p2", name, FALSE)
  \/ \E p \in Procs : ActiveProgress(p)

ActiveSpec == FactoryInit /\ [][ActiveNext]_vars

\* C30: no store command of a getActive changes the value of the key.
GetActiveOnlyReads ==
  [][\A p \in Procs :
       (/\ opName[p] = "getActive" /\ nOps[p] = 1
        /\ Len(storeQ'[p]) < Len(storeQ[p])) =>
         store' = store]_vars

----------------------------------------------------------------------------
(* createViewObject with workers that answer every request.               *)

SettleProgress(p) ==
  \/ RestoreStates(p)
  \/ WindowBounds(p)
  \/ Shown(p)
  \/ Initialized(p)
  \/ ViewObjectCreated(p)
  \/ StoreSet(p)

\* One client; no worker leaves.
SettleNext ==
  \/ \E ws \in WindowSettingsChoices : Create("p1", "A", ws)
  \/ \E w \in Displays : CreateViewObject("p1", w)
  \/ SettleProgress("p1")
  \/ \E d \in Displays : WorkerUp(d)

\* every callback whose replies are in runs, every starting worker comes up
SettleSpec ==
  /\ Init /\ [][SettleNext]_vars
  /\ WF_vars(SettleProgress("p1"))
  /\ WF_vars(\E d \in Displays : WorkerUp(d))

\* C31: the promise of a createViewObject, here the last call of its client,
\* is eventually resolved or rejected.
CreateViewObjectSettles ==
  \A p \in Procs :
    (opName[p] = "createViewObject" /\ nOps[p] = MaxOps)
      ~> (outcome[p].st \in {"resolved", "rejected"})

----------------------------------------------------------------------------

\* C32: a create whose reconciliation rejected leaves displayWindows and
\* viewObjects of its new context as they were before the call: empty.
FailedReconcileKeepsCache ==
  \A p \in Procs :
    (opName[p] = "create" /\ pc[p] = "idle" /\ outcome[p].st = "rejected") =>
      DOMAIN displayWindows[p] = {} /\ DOMAIN viewObjects[p] = {}

\* C33: the maps restoreFromDisplayWorkerStates builds from the replies of
\* two workers are the maps it builds from the same replies listed in the
\* other order.
RestoreOrderIndependent ==
  \A p \in Procs :
    (pc[p] = "restore.wait" /\ AllReplied(p) /\ Len(calls[p]) = 2) =>
      \A states \in ReplyLists(calls[p], DwStatesOf) :
        LET swapped == <<states[2], states[1]>>
        IN /\ Restored(swapped).dw = Restored(states).dw
           /\ Restored(swapped).vo = Restored(states).vo

----------------------------------------------------------------------------
(* DisplayContext.onClosed(handler)                                       *)

ClosedTopic == "display.displayContext.closed"

\* onClosed: the subscription to 'display.displayContext.closed'
OnClosed(p) ==
  /\ pc[p] = "idle"
  /\ dcName[p] # Nil
  /\ ~closedHandler[p].set
  /\ closedHandler' = [closedHandler EXCEPT ![p] =
       [set |-> TRUE, name |-> dcName[p], since |-> Len(published) + 1,
        next |-> Len(published) + 1, invoked |-> 0]]
  /\ UNCHANGED <<gen, queues, store, storeQ, signals, published, dcVars, callVars>>

\* m.details.closedDisplayContext (closedDisplayContextName in the
\* TypeScript sources): details is the array of replies close() published,
\* which has no such property
ClosedDisplayContextOf(e) == Nil

\* the callback onClosed subscribed, run on the next event published
ClosedTopicDelivered(p) ==
  /\ closedHandler[p].set
  /\ closedHandler[p].next <= Len(published)
  /\ LET e == published[closedHandler[p].next]
     IN closedHandler' = [closedHandler EXCEPT
          ![p].next = @ + 1,
          ![p].invoked = IF /\ e.topic = ClosedTopic
                            /\ ClosedDisplayContextOf(e) = closedHandler[p].name
                           THEN @ + 1 ELSE @]
  /\ UNCHANGED <<gen, queues, store, storeQ, signals, published, dcVars, callVars>>

RoutingProgress(p) ==
  \/ RestoreStates(p)
  \/ WindowBounds(p)
  \/ Shown(p)
  \/ Initialized(p)
  \/ Closed(p)
  \/ StoreSet(p)
  \/ StoreGet(p)
  \/ StoreDel(p)
  \/ ClosedTopicDelivered(p)

\* One client that creates contexts, listens for closed contexts and closes
\* its context.
RoutingNext ==
  \/ \E name \in Contexts : Create("p1", name, EmptyMap)
  \/ OnClosed("p1")
  \/ Close("p1")
  \/ RoutingProgress("p1")

RoutingSpec == Init /\ [][RoutingNext]_vars

\* C35: a handler registered through onClosed on a context named C before
\* the close() of a context named C published its closed event has been
\* invoked once the event was delivered to it.
ClosedReachesHandlers ==
  \A p \in Procs, q \in Procs :
    (/\ closedHandler[p].set /\ closedHandler[p].next > Len(published)
     /\ opName[q] = "close" /\ pc[q] = "idle" /\ dcName[q] = closedHandler[p].name
     /\ \E i \in closedHandler[p].since..Len(published) : published[i].topic = ClosedTopic) =>
      closedHandler[p].invoked > 0

====
